---- MODULE Spec2Model ----
(***************************************************************************)
(* Model of wenkunovol2EPUB: the illustration hash ledger (save_hashes,    *)
(* check_hashes), the per-book pipeline find_and_download_novel with its   *)
(* thread-pool illustration download, the two-node TXT download and the    *)
(* batch loop of main.                                                     *)
(***************************************************************************)
EXTENDS Integers, Sequences, FiniteSets, TLC

VARIABLES
    book,               \* index into config.NOVEL_LIST of the book being processed
    pc,                 \* position of the main thread
    hash_file,          \* content of download/<book>/.hash
    dirs,               \* volume sub-directories existing under download/<book>
    files,              \* content of every image path under download/<book>
    txt_file,           \* size in bytes of download/<book>/<book>.txt (Absent if none)
    illustrations_ok,   \* find_and_download_novel local
    illustration_data,  \* find_and_download_novel local
    volume_images_map,  \* download_illustrations local
    download_tasks,     \* download_illustrations local: paths to fetch
    task_state,         \* per download task: queued / running / written / failed
    txt_success,        \* find_and_download_novel local
    requests_made,      \* TXT requests sent in this run: <<node, ok, size>>
    epub_input,         \* what create_epub was called with in this run
    readable,           \* the files generate_hashes.py can read
    cover_page_item,    \* create_epub local: the cover page was made
    illustration_items, \* create_epub local: the images that were loaded
    txt_content,        \* create_epub local `content`: the lines of the TXT file
    spine_items,        \* create_epub local, becomes book.spine
    final_toc           \* create_epub local, becomes book.toc

vars == <<book, pc, hash_file, dirs, files, txt_file, illustrations_ok,
          illustration_data, volume_images_map, download_tasks, task_state,
          txt_success, requests_made, epub_input, readable,
          cover_page_item, illustration_items, txt_content, spine_items,
          final_toc>>

epub_vars == <<readable, cover_page_item, illustration_items, txt_content,
               spine_items, final_toc>>

(***************************************************************************)
(* Bounds and program constants                                            *)
(***************************************************************************)
NumBooks == 2

MaxWorkers == 10

MinTxtSize == 100

\* Python's None where a resource map is expected, and a resource map
\* (dict volume -> list of paths).
None == [none |-> TRUE, map |-> <<>>]

Some(map) == [none |-> FALSE, map |-> map]

\* Truthiness of a resource map: `if illustration_data:`
Truthy(data) == ~data.none /\ data.map # <<>>

\* The ledger file: missing, present but not JSON, or JSON text.
Absent == [kind |-> "absent"]

Malformed == [kind |-> "malformed"]

\* Volumes of a book in the order of the rows of its index page, and the
\* image file names the illustration page of each volume may list.
VolumeNames == <<"v1", "v2">>

ImageNames(volume) == IF volume = "v1" THEN <<"a.jpg", "b.jpg">> ELSE <<"a.jpg">>

\* Byte contents of an image file, and the bodies the site serves for one.
Contents == {1, 2}

ServedContents == {1}

\* Sizes of a TXT file or of a TXT response body, around the threshold.
TxtSizes == {MinTxtSize, MinTxtSize + 1}

Range(s) == {s[i] : i \in DOMAIN s}

(***************************************************************************)
(* Paths: os.path.join(download_dir, volume, filename) and os.path.basename*)
(***************************************************************************)
PathJoin(volume, filename) == <<volume, filename>>

Basename(path) == path[2]

\* Every image path the site can make the program write.
ImagePaths ==
    UNION {{PathJoin(v, ImageNames(v)[i]) : i \in DOMAIN ImageNames(v)} :
              v \in Range(VolumeNames)}

\* files maps each existing image path to its content.
Exists(fs, path) == path \in DOMAIN fs

IsDir(ds, volume) == volume \in ds

(***************************************************************************)
(* get_file_sha256: the digest of a file's bytes; raises when the file     *)
(* cannot be opened.                                                       *)
(***************************************************************************)
Sha256(content) == 7919 * content + 104729

get_file_sha256(fs, filepath) ==
    IF Exists(fs, filepath)
    THEN [raised |-> FALSE, digest |-> Sha256(fs[filepath])]
    ELSE [raised |-> TRUE, digest |-> 0]

(***************************************************************************)
(* Python dicts keep insertion order: a dict is a sequence of <<key,       *)
(* value>> pairs with distinct keys.                                       *)
(***************************************************************************)
Keys(d) == {d[i][1] : i \in DOMAIN d}

DictSet(d, key, value) ==
    IF key \in Keys(d)
    THEN [i \in DOMAIN d |-> IF d[i][1] = key THEN <<key, value>> ELSE d[i]]
    ELSE Append(d, <<key, value>>)

\* json.dump of a dict to the ledger file, and json.load of the file.
JsonDump(hashes) == [kind |-> "json", json |-> hashes]

JsonLoad(text) ==
    IF text = Malformed
    THEN [raised |-> TRUE, value |-> <<>>]
    ELSE [raised |-> FALSE, value |-> text.json]

(***************************************************************************)
(* save_hashes                                                             *)
(***************************************************************************)
\* Mutant of HashPaths: only the first path of a volume is recorded.
HashPathsFirstOnly(fs, paths, acc) ==
    IF paths = <<>>
    THEN [raised |-> FALSE, value |-> acc]
    ELSE LET h == get_file_sha256(fs, Head(paths))
         IN  IF h.raised
             THEN [raised |-> TRUE, value |-> <<>>]
             ELSE [raised |-> FALSE,
                   value |-> DictSet(acc, Basename(Head(paths)), h.digest)]

\* {os.path.basename(p): get_file_sha256(p) for p in paths}
RECURSIVE HashPaths(_, _, _)
HashPaths(fs, paths, acc) ==
    IF paths = <<>>
    THEN [raised |-> FALSE, value |-> acc]
    ELSE LET h == get_file_sha256(fs, Head(paths))
         IN  IF h.raised
             THEN [raised |-> TRUE, value |-> <<>>]
             ELSE HashPaths(fs, Tail(paths),
                            DictSet(acc, Basename(Head(paths)), h.digest))

\* for volume, paths in illustration_data.items(): hashes[volume] = {...}
RECURSIVE HashVolumes(_, _, _)
HashVolumes(fs, data, acc) ==
    IF data = <<>>
    THEN [raised |-> FALSE, value |-> acc]
    ELSE LET entry == HashPaths(fs, Head(data)[2], <<>>)
         IN  IF entry.raised
             THEN [raised |-> TRUE, value |-> <<>>]
             ELSE HashVolumes(fs, Tail(data),
                              DictSet(acc, Head(data)[1], entry.value))

\* The ledger file after save_hashes(hash_file_path, data), given the file
\* before: the file is opened for writing only after every hash is computed.
save_hashes(before, fs, data) ==
    LET hashes == HashVolumes(fs, data.map, <<>>)
    IN  IF hashes.raised
        THEN [raised |-> TRUE, file |-> before]
        ELSE [raised |-> FALSE, file |-> JsonDump(hashes.value)]

(***************************************************************************)
(* check_hashes                                                            *)
(***************************************************************************)
\* Mutant of FileMatches: the digest is not compared.
FileMatchesExistsOnly(fs, filepath, filehash) == Exists(fs, filepath)

\* A listed file passes when it exists and its digest equals the recorded one.
FileMatches(fs, filepath, filehash) ==
    /\ Exists(fs, filepath)
    /\ get_file_sha256(fs, filepath).digest = filehash

\* for filename, filehash in files.items(): ... break at the first bad file
RECURSIVE CheckFiles(_, _, _, _)
CheckFiles(fs, volume, entries, acc) ==
    IF entries = <<>>
    THEN [all_match |-> TRUE, paths |-> acc]
    ELSE LET filepath == PathJoin(volume, Head(entries)[1])
         IN  IF ~FileMatches(fs, filepath, Head(entries)[2])
             THEN [all_match |-> FALSE, paths |-> acc]
             ELSE CheckFiles(fs, volume, Tail(entries), Append(acc, filepath))

\* for volume, files in saved_hashes.items(): ...
RECURSIVE CheckVolumes(_, _, _, _)
CheckVolumes(ds, fs, saved, current) ==
    IF saved = <<>>
    THEN <<TRUE, Some(current)>>
    ELSE LET volume == Head(saved)[1]
         IN  IF ~IsDir(ds, volume)
             THEN <<FALSE, None>>
             ELSE LET r == CheckFiles(fs, volume, Head(saved)[2], <<>>)
                  IN  IF ~r.all_match
                      THEN <<FALSE, None>>
                      ELSE CheckVolumes(ds, fs, Tail(saved),
                                        DictSet(current, volume, r.paths))

check_hashes(hf, ds, fs) ==
    IF hf = Absent
    THEN [raised |-> FALSE, result |-> <<FALSE, None>>]
    ELSE LET saved_hashes == JsonLoad(hf)
         IN  IF saved_hashes.raised
             THEN [raised |-> TRUE, result |-> <<FALSE, None>>]
             ELSE [raised |-> FALSE,
                   result |-> CheckVolumes(ds, fs, saved_hashes.value, <<>>)]

(***************************************************************************)
(* What the site and the disk can hold                                     *)
(***************************************************************************)
\* volume_images_map as download_illustrations builds it: for each volume
\* with an illustration page, in page order, its save paths.
VolumeEntry(volume) ==
    <<volume, [i \in DOMAIN ImageNames(volume) |->
                  PathJoin(volume, ImageNames(volume)[i])]>>

PlanOf(S) ==
    LET vs == SelectSeq(VolumeNames, LAMBDA v : v \in S)
    IN  [i \in DOMAIN vs |-> VolumeEntry(vs[i])]

Plans == {PlanOf(S) : S \in SUBSET Range(VolumeNames)}

PlanVolumes(plan) == {plan[i][1] : i \in DOMAIN plan}

RECURSIVE Flatten(_)
Flatten(plan) ==
    IF plan = <<>> THEN <<>> ELSE Head(plan)[2] \o Flatten(Tail(plan))

\* Image files on disk: any subset of the paths, each with some content.
FileStates == UNION {[P -> Contents] : P \in SUBSET ImagePaths}

\* Ledger files on disk: none, a damaged one, or one save_hashes wrote
\* in an earlier run from the files of that time.
Ledgers ==
    {Absent, Malformed} \cup
    {save_hashes(Absent, fs, Some(plan)).file :
        fs \in [ImagePaths -> Contents], plan \in Plans \ {<<>>}}

NoTxt == [exists |-> FALSE, size |-> 0]

TxtFile(size) == [exists |-> TRUE, size |-> size]

TxtStates == {NoTxt} \cup {TxtFile(n) : n \in TxtSizes}

\* The states download/<book> can be in when the book's turn comes.
DirStates ==
    {d \in [hash_file : Ledgers, dirs : SUBSET Range(VolumeNames),
            files : FileStates, txt_file : TxtStates] :
        {path[1] : path \in DOMAIN d.files} \subseteq d.dirs}

\* HTTP responses to a TXT request; an exception counts as not ok.
Responses == [ok : BOOLEAN, size : TxtSizes]

NotCalled == [called |-> FALSE, illustration_data |-> None]

(***************************************************************************)
(* The main thread: main -> find_and_download_novel                        *)
(***************************************************************************)
\* No call of create_epub is in progress.
NoEpubCall ==
    /\ readable = {}
    /\ cover_page_item = FALSE
    /\ illustration_items = {}
    /\ txt_content = <<>>
    /\ spine_items = <<>>
    /\ final_toc = <<>>

\* Entering find_and_download_novel for a book whose directory is d.
EnterBook(d) ==
    /\ hash_file = d.hash_file
    /\ dirs = d.dirs
    /\ files = d.files
    /\ txt_file = d.txt_file
    /\ illustrations_ok = FALSE
    /\ illustration_data = None
    /\ volume_images_map = <<>>
    /\ download_tasks = <<>>
    /\ task_state = <<>>
    /\ txt_success = FALSE
    /\ requests_made = <<>>
    /\ epub_input = NotCalled
    /\ pc = "check_hashes"

Init ==
    /\ book = 1
    /\ \E d \in DirStates : EnterBook(d)
    /\ NoEpubCall

\* Line 378. An exception of check_hashes leaves find_and_download_novel
\* (the call is outside its try) and is caught by main's except.
CheckHashes ==
    /\ pc = "check_hashes"
    /\ LET r == check_hashes(hash_file, dirs, files)
       IN  IF r.raised
           THEN /\ pc' = "main_except"
                /\ UNCHANGED <<illustrations_ok, illustration_data>>
           ELSE /\ illustrations_ok' = r.result[1]
                /\ illustration_data' = r.result[2]
                /\ pc' = "search"
    /\ UNCHANGED <<book, hash_file, dirs, files, txt_file, volume_images_map,
                   download_tasks, task_state, txt_success, requests_made,
                   epub_input>>
    /\ UNCHANGED epub_vars

\* Line 381.
SearchForNovel ==
    /\ pc = "search"
    /\ \E found \in BOOLEAN : pc' = IF found THEN "detail" ELSE "return"
    /\ UNCHANGED <<book, hash_file, dirs, files, txt_file, illustrations_ok,
                   illustration_data, volume_images_map, download_tasks,
                   task_state, txt_success, requests_made, epub_input>>
    /\ UNCHANGED epub_vars

\* Lines 385-426: the detail page, metadata, cover and novel id.
DetailPage ==
    /\ pc = "detail"
    /\ \E outcome \in {"ok", "exception", "no_id"} :
          pc' = IF outcome = "ok" THEN "illustrations" ELSE "return"
    /\ UNCHANGED <<book, hash_file, dirs, files, txt_file, illustrations_ok,
                   illustration_data, volume_images_map, download_tasks,
                   task_state, txt_success, requests_made, epub_input>>
    /\ UNCHANGED epub_vars

\* Mutant of NeedsDownload: the illustrations are downloaded in every run.
NeedsDownloadAlways == TRUE

\* Line 428: `if not illustrations_ok:`
NeedsDownload == ~illustrations_ok

\* Lines 428, 432-433: the ledger validated, nothing is downloaded.
SkipIllustrations ==
    /\ pc = "illustrations"
    /\ ~NeedsDownload
    /\ pc' = "txt"
    /\ UNCHANGED <<book, hash_file, dirs, files, txt_file, illustrations_ok,
                   illustration_data, volume_images_map, download_tasks,
                   task_state, txt_success, requests_made, epub_input>>
    /\ UNCHANGED epub_vars

\* Lines 428-429 and 507-552: download_illustrations up to the executor.
\* plan is what the pages list; failed is an exception while scraping,
\* after the directories of plan were made.
DownloadIllustrations ==
    /\ pc = "illustrations"
    /\ NeedsDownload
    /\ \E plan \in Plans, failed \in BOOLEAN :
          /\ dirs' = dirs \cup PlanVolumes(plan)
          /\ IF failed \/ plan = <<>>
             THEN /\ illustration_data' = Some(<<>>)
                  /\ pc' = "save_hashes"
                  /\ UNCHANGED <<volume_images_map, download_tasks, task_state>>
             ELSE /\ volume_images_map' = plan
                  /\ download_tasks' = Flatten(plan)
                  /\ task_state' = [i \in DOMAIN Flatten(plan) |-> "queued"]
                  /\ pc' = "executor"
                  /\ UNCHANGED illustration_data
    /\ UNCHANGED <<book, hash_file, files, txt_file, illustrations_ok,
                   txt_success, requests_made, epub_input>>
    /\ UNCHANGED epub_vars

(***************************************************************************)
(* The worker threads of ThreadPoolExecutor(max_workers=10)                *)
(***************************************************************************)
Running(ts) == {i \in DOMAIN ts : ts[i] = "running"}

\* A free worker takes the next queued task.
StartTask(i) ==
    /\ task_state[i] = "queued"
    /\ Cardinality(Running(task_state)) < MaxWorkers
    /\ task_state' = [task_state EXCEPT ![i] = "running"]
    /\ UNCHANGED <<book, pc, hash_file, dirs, files, txt_file,
                   illustrations_ok, illustration_data, volume_images_map,
                   download_tasks, txt_success, requests_made, epub_input>>
    /\ UNCHANGED epub_vars

\* download_image: the body is written only when the response is ok; a
\* bad status or any exception leaves the disk alone. Nothing is returned.
download_image(i) ==
    /\ task_state[i] = "running"
    /\ \E ok \in BOOLEAN, content \in ServedContents :
          IF ok
          THEN /\ files' = (download_tasks[i] :> content) @@ files
               /\ task_state' = [task_state EXCEPT ![i] = "written"]
          ELSE /\ task_state' = [task_state EXCEPT ![i] = "failed"]
               /\ UNCHANGED files
    /\ UNCHANGED <<book, pc, hash_file, dirs, txt_file, illustrations_ok,
                   illustration_data, volume_images_map, download_tasks,
                   txt_success, requests_made, epub_input>>
    /\ UNCHANGED epub_vars

\* Mutant of AllTasksDone: the main thread does not wait for the workers.
AllTasksDoneNoWait(ts) == TRUE

\* Leaving the `with` block waits for every submitted task.
AllTasksDone(ts) == \A i \in DOMAIN ts : ts[i] \in {"written", "failed"}

\* Lines 552-556 and 429: the executor is left, volume_images_map returned.
ExecutorJoin ==
    /\ pc = "executor"
    /\ AllTasksDone(task_state)
    /\ illustration_data' = Some(volume_images_map)
    /\ pc' = "save_hashes"
    /\ UNCHANGED <<book, hash_file, dirs, files, txt_file, illustrations_ok,
                   volume_images_map, download_tasks, task_state, txt_success,
                   requests_made, epub_input>>
    /\ UNCHANGED epub_vars

\* Lines 430-431 and 436-438: an exception of save_hashes is caught by the
\* try of find_and_download_novel, which returns.
SaveHashes ==
    /\ pc = "save_hashes"
    /\ IF Truthy(illustration_data)
       THEN LET r == save_hashes(hash_file, files, illustration_data)
            IN  /\ hash_file' = r.file
                /\ pc' = IF r.raised THEN "return" ELSE "txt"
       ELSE /\ pc' = "txt"
            /\ UNCHANGED hash_file
    /\ UNCHANGED <<book, dirs, files, txt_file, illustrations_ok,
                   illustration_data, volume_images_map, download_tasks,
                   task_state, txt_success, requests_made, epub_input>>
    /\ UNCHANGED epub_vars

(***************************************************************************)
(* The TXT file                                                            *)
(***************************************************************************)
\* Lines 446-453.
LocalTxt ==
    /\ pc = "txt"
    /\ IF txt_file.exists /\ txt_file.size > MinTxtSize
       THEN txt_success' = TRUE /\ pc' = "txt_done"
       ELSE txt_success' = FALSE /\ pc' = "node1"
    /\ UNCHANGED <<book, hash_file, dirs, files, txt_file, illustrations_ok,
                   illustration_data, volume_images_map, download_tasks,
                   task_state, requests_made, epub_input>>
    /\ UNCHANGED epub_vars

\* Mutant of TxtAccepted: a body of exactly the threshold is accepted.
TxtAcceptedAtThreshold(response) == response.ok /\ response.size >= MinTxtSize

\* download_txt: True, and the file written, when the response is ok and
\* longer than the threshold.
TxtAccepted(response) == response.ok /\ response.size > MinTxtSize

download_txt(node, response) ==
    /\ requests_made' = Append(requests_made, <<node, response>>)
    /\ txt_success' = TxtAccepted(response)
    /\ txt_file' = IF TxtAccepted(response) THEN TxtFile(response.size)
                   ELSE txt_file

\* Lines 458-459.
DownloadTxtNode1 ==
    /\ pc = "node1"
    /\ \E response \in Responses :
          /\ download_txt(1, response)
          /\ pc' = IF TxtAccepted(response) THEN "txt_done" ELSE "node2"
    /\ UNCHANGED <<book, hash_file, dirs, files, illustrations_ok,
                   illustration_data, volume_images_map, download_tasks,
                   task_state, epub_input>>
    /\ UNCHANGED epub_vars

\* Lines 460-462.
DownloadTxtNode2 ==
    /\ pc = "node2"
    /\ \E response \in Responses : download_txt(2, response)
    /\ pc' = "txt_done"
    /\ UNCHANGED <<book, hash_file, dirs, files, illustrations_ok,
                   illustration_data, volume_images_map, download_tasks,
                   task_state, epub_input>>
    /\ UNCHANGED epub_vars

\* Mutant of TxtFailed: the `return` of line 466 is missing and create_epub
\* is reached without a TXT file.
TxtFailedFallsThrough ==
    /\ pc = "txt_done"
    /\ ~txt_success
    /\ epub_input' = [called |-> TRUE, illustration_data |-> illustration_data]
    /\ pc' = "return"
    /\ UNCHANGED <<book, hash_file, dirs, files, txt_file, illustrations_ok,
                   illustration_data, volume_images_map, download_tasks,
                   task_state, txt_success, requests_made>>
    /\ UNCHANGED epub_vars

\* Lines 464-466.
TxtFailed ==
    /\ pc = "txt_done"
    /\ ~txt_success
    /\ pc' = "return"
    /\ UNCHANGED <<book, hash_file, dirs, files, txt_file, illustrations_ok,
                   illustration_data, volume_images_map, download_tasks,
                   task_state, txt_success, requests_made, epub_input>>
    /\ UNCHANGED epub_vars

\* Line 469: create_epub is called with the resource map of this run.
CreateEpub ==
    /\ pc = "txt_done"
    /\ txt_success
    /\ epub_input' = [called |-> TRUE, illustration_data |-> illustration_data]
    /\ pc' = "return"
    /\ UNCHANGED <<book, hash_file, dirs, files, txt_file, illustrations_ok,
                   illustration_data, volume_images_map, download_tasks,
                   task_state, txt_success, requests_made>>
    /\ UNCHANGED epub_vars

(***************************************************************************)
(* main: the loop over config.NOVEL_LIST                                   *)
(***************************************************************************)
\* Line 495-496: find_and_download_novel has returned. Its locals are gone,
\* and the directory variables, which describe the directory of the book
\* in hand, describe nothing until the next book is entered.
ReturnToMain ==
    /\ pc = "return"
    /\ pc' = "main_loop"
    /\ hash_file' = Absent
    /\ dirs' = {}
    /\ files' = <<>>
    /\ txt_file' = NoTxt
    /\ illustrations_ok' = FALSE
    /\ illustration_data' = None
    /\ volume_images_map' = <<>>
    /\ download_tasks' = <<>>
    /\ task_state' = <<>>
    /\ txt_success' = FALSE
    /\ requests_made' = <<>>
    /\ epub_input' = NotCalled
    /\ UNCHANGED book
    /\ UNCHANGED epub_vars

\* Lines 491-495: the next title, whose directory is some d.
NextBook ==
    /\ pc = "main_loop"
    /\ book < NumBooks
    /\ book' = book + 1
    /\ \E d \in DirStates :
          /\ hash_file' = d.hash_file
          /\ dirs' = d.dirs
          /\ files' = d.files
          /\ txt_file' = d.txt_file
    /\ pc' = "check_hashes"
    /\ UNCHANGED <<illustrations_ok, illustration_data, volume_images_map,
                   download_tasks, task_state, txt_success, requests_made,
                   epub_input>>
    /\ UNCHANGED epub_vars

\* Lines 497, 501-503: the list is exhausted.
AllBooksDone ==
    /\ pc = "main_loop"
    /\ book = NumBooks
    /\ pc' = "quit"
    /\ UNCHANGED <<book, hash_file, dirs, files, txt_file, illustrations_ok,
                   illustration_data, volume_images_map, download_tasks,
                   task_state, txt_success, requests_made, epub_input>>
    /\ UNCHANGED epub_vars

\* Lines 499-503: an exception in the loop ends the loop.
MainExcept ==
    /\ pc = "main_except"
    /\ pc' = "quit"
    /\ UNCHANGED <<book, hash_file, dirs, files, txt_file, illustrations_ok,
                   illustration_data, volume_images_map, download_tasks,
                   task_state, txt_success, requests_made, epub_input>>
    /\ UNCHANGED epub_vars

Next ==
    \/ CheckHashes
    \/ SearchForNovel
    \/ DetailPage
    \/ SkipIllustrations
    \/ DownloadIllustrations
    \/ \E i \in DOMAIN task_state : StartTask(i)
    \/ \E i \in DOMAIN task_state : download_image(i)
    \/ ExecutorJoin
    \/ SaveHashes
    \/ LocalTxt
    \/ DownloadTxtNode1
    \/ DownloadTxtNode2
    \/ TxtFailed
    \/ CreateEpub
    \/ ReturnToMain
    \/ NextBook
    \/ AllBooksDone
    \/ MainExcept

Spec == Init /\ [][Next]_vars

(***************************************************************************)
(* SpecLedger: save_hashes and check_hashes applied, one after the other,  *)
(* to any directory and any resource map.                                  *)
(***************************************************************************)
\* Lists of one or two paths inside the directory of a volume.
PathLists(volume) ==
    LET ps == {PathJoin(volume, ImageNames(volume)[i]) :
                  i \in DOMAIN ImageNames(volume)}
    IN  {<<p>> : p \in ps} \cup {<<p, q>> : p \in ps, q \in ps}

\* Resource maps: volume -> list of paths, volumes in page order.
ResourceMaps ==
    UNION {{[i \in DOMAIN SelectSeq(VolumeNames, LAMBDA v : v \in S) |->
                <<SelectSeq(VolumeNames, LAMBDA v : v \in S)[i],
                  c[SelectSeq(VolumeNames, LAMBDA v : v \in S)[i]]>>] :
              c \in {f \in [S -> UNION {PathLists(v) : v \in S}] :
                        \A v \in S : f[v] \in PathLists(v)}} :
           S \in SUBSET Range(VolumeNames)}

InitLedger ==
    /\ book = 1
    /\ pc = "ledger_save"
    /\ \E d \in DirStates :
          /\ hash_file = d.hash_file
          /\ dirs = d.dirs
          /\ files = d.files
          /\ txt_file = NoTxt
    /\ volume_images_map \in ResourceMaps
    /\ illustrations_ok = FALSE
    /\ illustration_data = None
    /\ download_tasks = <<>>
    /\ task_state = <<>>
    /\ txt_success = FALSE
    /\ requests_made = <<>>
    /\ epub_input = NotCalled
    /\ NoEpubCall

\* save_hashes(hash_file, volume_images_map)
LedgerSave ==
    /\ pc = "ledger_save"
    /\ LET r == save_hashes(hash_file, files, Some(volume_images_map))
       IN  /\ hash_file' = r.file
           /\ pc' = IF r.raised THEN "ledger_raised" ELSE "ledger_saved"
    /\ UNCHANGED <<book, dirs, files, txt_file, illustrations_ok,
                   illustration_data, volume_images_map, download_tasks,
                   task_state, txt_success, requests_made, epub_input>>
    /\ UNCHANGED epub_vars

\* illustrations_ok, illustration_data = check_hashes(hash_file, download_dir)
LedgerCheck ==
    /\ pc = "ledger_saved"
    /\ LET r == check_hashes(hash_file, dirs, files)
       IN  /\ illustrations_ok' = r.result[1]
           /\ illustration_data' = r.result[2]
           /\ pc' = IF r.raised THEN "ledger_raised" ELSE "ledger_checked"
    /\ UNCHANGED <<book, hash_file, dirs, files, txt_file, volume_images_map,
                   download_tasks, task_state, txt_success, requests_made,
                   epub_input>>
    /\ UNCHANGED epub_vars

NextLedger ==
    \/ LedgerSave
    \/ LedgerCheck

SpecLedger == InitLedger /\ [][NextLedger]_vars

(***************************************************************************)
(* generate_hashes.py: the ledger written for an existing download         *)
(* directory, then read by check_hashes                                    *)
(***************************************************************************)
\* generate_hashes.py line 9.
IMAGE_EXTENSIONS == {".jpg", ".jpeg", ".png", ".gif", ".webp"}

\* The file names a volume directory of these runs can hold, in the order
\* os.listdir gives them.
GeneratorFileNames == <<"a.jpg", "B.PNG", "n.txt">>

\* str.lower() and the extension of a name, for these names.
Lower(filename) == IF filename = "B.PNG" THEN "b.png" ELSE filename

Suffix(filename) ==
    CASE filename = "a.jpg" -> ".jpg"
      [] filename = "b.png" -> ".png"
      [] filename = "B.PNG" -> ".PNG"
      [] OTHER -> ".txt"

\* Mutant of IsImageFile: the extension is compared as it is written.
IsImageFileCaseSensitive(filename) == Suffix(filename) \in IMAGE_EXTENSIONS

\* generate_hashes.py line 54: filename.lower().endswith(IMAGE_EXTENSIONS)
IsImageFile(filename) == Suffix(Lower(filename)) \in IMAGE_EXTENSIONS

\* generate_hashes.py lines 12-23: the digest, or None for a file that
\* cannot be read.
generator_get_file_sha256(fs, can_read, filepath) ==
    IF Exists(fs, filepath) /\ filepath \in can_read
    THEN [none |-> FALSE, digest |-> Sha256(fs[filepath])]
    ELSE [none |-> TRUE, digest |-> 0]

\* generate_hashes.py lines 53-62: book_hashes[volume_name] after the loop
\* over the files of the volume directory.
RECURSIVE GeneratorVolume(_, _, _, _, _)
GeneratorVolume(fs, can_read, volume_name, filenames, acc) ==
    IF filenames = <<>> THEN acc
    ELSE LET filename == filenames[1]
             image_path == PathJoin(volume_name, filename)
             file_hash == generator_get_file_sha256(fs, can_read, image_path)
         IN  GeneratorVolume(fs, can_read, volume_name, Tail(filenames),
                 IF /\ Exists(fs, image_path)
                    /\ IsImageFile(filename)
                    /\ ~file_hash.none
                 THEN DictSet(acc, filename, file_hash.digest)
                 ELSE acc)

\* generate_hashes.py lines 44-66: book_hashes after the loop over the
\* items of the book directory; every sub-directory gets an entry.
RECURSIVE GeneratorBook(_, _, _, _, _)
GeneratorBook(ds, fs, can_read, items, acc) ==
    IF items = <<>> THEN acc
    ELSE GeneratorBook(ds, fs, can_read, Tail(items),
             IF IsDir(ds, items[1])
             THEN DictSet(acc, items[1],
                      GeneratorVolume(fs, can_read, items[1],
                                      GeneratorFileNames, <<>>))
             ELSE acc)

\* The download directories the generator is run on: any volume
\* directories, each with any of the files, readable or not.
GeneratorDirStates ==
    UNION {UNION {[dirs : {ds}, files : {fs}, readable : SUBSET DOMAIN fs] :
                     fs \in UNION {[P -> Contents] :
                               P \in SUBSET {PathJoin(v, GeneratorFileNames[i]) :
                                        v \in ds, i \in DOMAIN GeneratorFileNames}}} :
              ds \in SUBSET Range(VolumeNames)}

InitGenerate ==
    /\ book = 1
    /\ pc = "generate"
    /\ hash_file \in {Absent, Malformed}
    /\ \E d \in GeneratorDirStates :
          /\ dirs = d.dirs
          /\ files = d.files
          /\ readable = d.readable
    /\ txt_file = NoTxt
    /\ volume_images_map = <<>>
    /\ illustrations_ok = FALSE
    /\ illustration_data = None
    /\ download_tasks = <<>>
    /\ task_state = <<>>
    /\ txt_success = FALSE
    /\ requests_made = <<>>
    /\ epub_input = NotCalled
    /\ cover_page_item = FALSE
    /\ illustration_items = {}
    /\ txt_content = <<>>
    /\ spine_items = <<>>
    /\ final_toc = <<>>

\* generate_hashes.py lines 26-80 for one book directory: the ledger is
\* written when an image was recorded and the file can be written.
GenerateHashes ==
    /\ pc = "generate"
    /\ LET book_hashes == GeneratorBook(dirs, files, readable, VolumeNames, <<>>)
           has_illustrations ==
               \E i \in DOMAIN book_hashes : book_hashes[i][2] # <<>>
       IN  \E written \in BOOLEAN :
              IF has_illustrations /\ written
              THEN /\ hash_file' = JsonDump(book_hashes)
                   /\ pc' = "ledger_saved"
              ELSE /\ hash_file' = hash_file
                   /\ pc' = "no_ledger"
    /\ UNCHANGED <<book, dirs, files, txt_file, illustrations_ok,
                   illustration_data, volume_images_map, download_tasks,
                   task_state, txt_success, requests_made, epub_input>>
    /\ UNCHANGED epub_vars

NextGenerate ==
    \/ GenerateHashes
    \/ LedgerCheck

SpecGenerate == InitGenerate /\ [][NextGenerate]_vars

(***************************************************************************)
(* create_epub (lines 86-309), applied to a TXT file, a cover and an       *)
(* illustration map                                                        *)
(***************************************************************************)
\* Most lines a TXT file of the model has.
MaxLines == 3

\* A text is the sequence of its lines. A line is its leading white space
\* (there or not) and what follows it; a blank line has nothing after it.
Line(indent, text) == [indent |-> indent, text |-> text]

\* What a line can say, in place of the Chinese of the source:
\*   ""             nothing (a blank line)
\*   "p"            a paragraph
\*   "chatu"        a line with the illustration mark of line 254 in it
\*   "juan1"        a generic volume marker of lines 189 and 214
\*   "juan1 shang"  the same marker followed by a subtitle
\*   "waizhuan"     a volume name no generic pattern matches
\*   "zhang1"       a chapter heading of line 255
LineTexts == {"", "p", "chatu", "juan1", "juan1 shang", "waizhuan", "zhang1"}

\* The lines of the TXT files: each text at the line start, and the
\* volume marker after leading white space, where split_pattern does not
\* match it.
TxtLines ==
    {Line(FALSE, t) : t \in LineTexts} \cup {Line(TRUE, "juan1")}

SeqsUpTo(S, n) == UNION {[1..k -> S] : k \in 0..n}

Texts == SeqsUpTo(TxtLines, MaxLines)

\* str.startswith for the names of the model.
StartsWith(text, prefix) ==
    \/ text = prefix
    \/ text = "juan1 shang" /\ prefix = "juan1"

\* Line 189: what the generic pattern matches at the start of a title,
\* "" if it does not match.
GenericMatch(title) ==
    IF StartsWith(title, "juan1") THEN "juan1" ELSE ""

\* Lines 188-190.
get_core_volume_name(title) ==
    IF GenericMatch(title) # "" THEN GenericMatch(title) ELSE title

\* line.strip()
StripLine(line) == line.text

IsBlank(line) == StripLine(line) = ""

\* Lines 213-216: a line matches split_pattern when it begins, at the line
\* start, with a known volume title or with a generic marker.
IsVolumeHeading(line, known_volume_titles) ==
    /\ ~line.indent
    /\ \/ \E t \in known_volume_titles : StartsWith(line.text, t)
       \/ GenericMatch(line.text) # ""

\* Line 255: sub_chapter_pattern matches whole lines only.
IsChapterHeading(line) == ~line.indent /\ line.text = "zhang1"

\* Line 254.
HasIllustrationMark(line) == line.text = "chatu"

\* The indices of S in increasing order.
RECURSIVE Ascending(_)
Ascending(S) ==
    IF S = {} THEN <<>>
    ELSE LET least == CHOOSE x \in S : \A y \in S : x <= y
         IN  <<least>> \o Ascending(S \ {least})

\* re.split(pattern, text, flags=re.MULTILINE) for a pattern of one group
\* that matches whole lines, at is the set of the lines it matches: the
\* text before the first match, then each matched line with the text up to
\* the next match.
ReSplit(text, at) ==
    LET h == Ascending(at)
        n == Cardinality(at)
        upto(i) == IF i < n THEN h[i + 1] - 1 ELSE Len(text)
    IN  [head |-> IF n = 0 THEN text ELSE SubSeq(text, 1, h[1] - 1),
         sections |-> [i \in 1..n |->
                         [title |-> text[h[i]],
                          body |-> SubSeq(text, h[i] + 1, upto(i))]]]

\* str.strip() of a text: the blank lines at both ends go, and so does the
\* leading white space of the first line left.
Strip(text) ==
    LET solid == {k \in DOMAIN text : ~IsBlank(text[k])}
    IN  IF solid = {} THEN <<>>
        ELSE LET first == CHOOSE k \in solid : \A m \in solid : k <= m
                 last == CHOOSE k \in solid : \A m \in solid : m <= k
                 kept == SubSeq(text, first, last)
             IN  [kept EXCEPT ![1] = Line(FALSE, kept[1].text)]

\* Line 254: re.sub(r'.*<mark>.*', '', volume_text) empties the lines
\* that hold the mark.
RemoveIllustrationLines(text) ==
    [k \in DOMAIN text |->
        IF HasIllustrationMark(text[k]) THEN Line(FALSE, "") ELSE text[k]]

\* Lines 221, 276: one <p> for each line that is not blank, stripped. A
\* paragraph is the sequence of the line texts it is made of.
Paragraphs(text) ==
    LET solid == SelectSeq(text, LAMBDA line : ~IsBlank(line))
    IN  [k \in DOMAIN solid |-> <<StripLine(solid[k])>>]

\* Mutant of FallbackParagraphs: the lines equal to the volume title stay.
FallbackParagraphsKeepTitle(text, volume_title) == Paragraphs(text)

\* Lines 263-264: as Paragraphs, less the lines equal to the volume title.
FallbackParagraphs(text, volume_title) ==
    LET solid == SelectSeq(text, LAMBDA line :
                     ~IsBlank(line) /\ StripLine(line) # volume_title)
    IN  [k \in DOMAIN solid |-> <<StripLine(solid[k])>>]

\* Lines 275-276 for the first chapter of a volume: the two strings are
\* concatenated with nothing between them, so the last line of the intro
\* and the first line of the chapter are one line of sub_text_full. Both
\* texts are stripped, so these two lines are not blank.
FirstChapterParagraphs(volume_intro_text, sub_text) ==
    LET a == Paragraphs(volume_intro_text)
        b == Paragraphs(Strip(sub_text))
    IN  IF a = <<>> THEN b
        ELSE IF b = <<>> THEN a
        ELSE SubSeq(a, 1, Len(a) - 1) \o <<a[Len(a)] \o b[1]>> \o Tail(b)

\* An epub.EpubHtml item (or the string 'nav'). kind, volume and chapter
\* stand for the file name: cover.xhtml, synopsis.xhtml, prologue.xhtml,
\* illust_<volume>.xhtml, vol_<volume>_full.xhtml,
\* vol_<volume>_chap_<chapter>.xhtml.
Page(kind, volume, chapter, title, body) ==
    [kind |-> kind, volume |-> volume, chapter |-> chapter,
     title |-> title, body |-> body]

FileName(page) ==
    [kind |-> page.kind, volume |-> page.volume, chapter |-> page.chapter]

\* An entry of final_toc: a link or a page (lines 210, 226, 270), or a
\* Section with the chapters of a volume (line 286).
TocEntry(section, title, pages) ==
    [section |-> section, title |-> title,
     pages |-> [k \in DOMAIN pages |-> FileName(pages[k])]]

DictGet(d, key) == d[CHOOSE i \in DOMAIN d : d[i][1] = key][2]

\* Mutant of DictPop: the entry is read and stays in the map.
DictPopKeeps(d, key) == d

\* dict.pop(key), less the value it returns
DictPop(d, key) == SelectSeq(d, LAMBDA e : e[1] # key)

\* Lines 192-193: the comprehension keeps, of the volumes of one core
\* name, the images of the last.
RECURSIVE CoreIllustrationMap(_, _)
CoreIllustrationMap(items, acc) ==
    IF items = <<>> THEN acc
    ELSE CoreIllustrationMap(Tail(items),
             DictSet(acc, get_core_volume_name(items[1][1]), items[1][2]))

\* Lines 160-177: the keys of illustration_items, the images that could be
\* read.
IllustrationItems(data, can_read) ==
    IF Truthy(data)
    THEN {img_path \in UNION {Range(data.map[i][2]) : i \in DOMAIN data.map} :
             img_path \in can_read}
    ELSE {}

\* Mutant of SpineStart: the navigation page first, the cover after it.
SpineStartNavFirst(cover) ==
    <<Page("nav", 0, 0, "", <<>>)>>
        \o (IF cover THEN <<Page("cover", 0, 0, "cover", <<>>)>>
            ELSE <<>>)

\* Lines 195-199.
SpineStart(cover) ==
    (IF cover THEN <<Page("cover", 0, 0, "cover", <<>>)>>
     ELSE <<>>)
        \o <<Page("nav", 0, 0, "", <<>>)>>

\* Lines 231-286: one turn of the loop over the volumes. st holds
\* core_illustration_map, spine_items and final_toc.
VolumeTurn(st, volume_index, section, items) ==
    LET volume_title == StripLine(section.title)
        current_core_title == get_core_volume_name(volume_title)
        hit == current_core_title \in Keys(st.map)
        image_paths == IF hit THEN DictGet(st.map, current_core_title)
                       ELSE <<>>
        img_html_parts ==
            SelectSeq(image_paths, LAMBDA img_path :
                img_path \in items)
        illust == IF hit /\ img_html_parts # <<>>
                  THEN <<Page("illust", volume_index, 0, volume_title,
                              img_html_parts)>>
                  ELSE <<>>
        volume_text == RemoveIllustrationLines(Strip(section.body))
        sub_parts ==
            ReSplit(volume_text,
                    {k \in DOMAIN volume_text :
                        IsChapterHeading(volume_text[k])})
        volume_intro_text == Strip(sub_parts.head)
        sub == sub_parts.sections
        full == IF Strip(volume_text) # <<>>
                THEN <<Page("full", volume_index, 0, volume_title,
                            FallbackParagraphs(volume_text, volume_title))>>
                ELSE <<>>
        volume_sub_toc ==
            [j \in DOMAIN sub |->
                Page("chap", volume_index, j, StripLine(sub[j].title),
                     IF j = 1
                     THEN FirstChapterParagraphs(volume_intro_text,
                                                 sub[j].body)
                     ELSE Paragraphs(Strip(sub[j].body)))]
    IN  [map |-> IF hit THEN DictPop(st.map, current_core_title)
                 ELSE st.map,
         spine |-> st.spine \o illust
                       \o (IF sub = <<>> THEN full ELSE volume_sub_toc),
         toc |-> st.toc
                     \o (IF sub = <<>>
                         THEN [k \in DOMAIN full |->
                                  TocEntry(FALSE, volume_title, full)]
                         ELSE <<TocEntry(TRUE, volume_title,
                                         volume_sub_toc)>>)]

\* Line 230: the loop.
RECURSIVE VolumeLoop(_, _, _, _)
VolumeLoop(st, volume_index, sections, items) ==
    IF volume_index > Len(sections) THEN st
    ELSE VolumeLoop(VolumeTurn(st, volume_index, sections[volume_index],
                               items),
                    volume_index + 1, sections, items)

\* Lines 187-193, 201-286: what follows the cover and the navigation page
\* in spine_items, and final_toc, for a TXT file that could be read. items
\* are the images that were loaded.
AssembleBook(items, data, text) ==
    LET core_illustration_map ==
            IF Truthy(data) THEN CoreIllustrationMap(data.map, <<>>)
            ELSE <<>>
        synopsis_chapter == Page("synopsis", 0, 0, "synopsis", <<>>)
        known_volume_titles == IF Truthy(data) THEN Keys(data.map) ELSE {}
        parts ==
            ReSplit(text,
                    {k \in DOMAIN text :
                        IsVolumeHeading(text[k], known_volume_titles)})
        prologue_content == Strip(parts.head)
        prologue == IF prologue_content # <<>>
                    THEN <<Page("prologue", 0, 0, "prologue",
                                Paragraphs(prologue_content))>>
                    ELSE <<>>
    IN  VolumeLoop(
            [map |-> core_illustration_map,
             spine |-> <<synopsis_chapter>> \o prologue,
             toc |-> <<TocEntry(FALSE, "synopsis", <<synopsis_chapter>>)>>
                         \o [k \in DOMAIN prologue |->
                                TocEntry(FALSE, "prologue", prologue)]],
            1, parts.sections, items)

\* The volume names of the illustration maps given to create_epub.
EpubVolumeNames == {"juan1 shang", "juan1", "waizhuan"}

\* The images of a volume of these maps.
EpubImages(volume) == <<PathJoin(volume, "a.jpg")>>

\* The illustration maps create_epub is called with: none, one volume
\* (with its image, or with none: a volume directory without images, as
\* generate_hashes.py records it), or two volumes, the first of them a
\* numbered one.
EpubIllustrationData ==
    {None}
        \cup UNION {{Some(<<<<v, l>>>>) : l \in {<<>>, EpubImages(v)}} :
                       v \in EpubVolumeNames}
        \cup {Some(<<<<d[1], EpubImages(d[1])>>, <<d[2], EpubImages(d[2])>>>>) :
                 d \in {d \in EpubVolumeNames \X EpubVolumeNames :
                           d[1] # d[2] /\ GenericMatch(d[1]) # ""}}

InitEpub ==
    /\ book = 1
    /\ pc = "create_epub"
    /\ hash_file = Absent
    /\ dirs = {}
    /\ files = <<>>
    /\ illustrations_ok = FALSE
    /\ illustration_data \in EpubIllustrationData
    /\ volume_images_map = <<>>
    /\ download_tasks = <<>>
    /\ task_state = <<>>
    /\ txt_success = TRUE
    /\ requests_made = <<>>
    /\ epub_input = [called |-> TRUE, illustration_data |-> illustration_data]
    /\ readable = {}
    /\ cover_page_item = FALSE
    /\ illustration_items = {}
    /\ \/ txt_file = TxtFile(MinTxtSize + 1) /\ txt_content \in Texts
       \/ txt_file = NoTxt /\ txt_content = <<>>
    /\ spine_items = <<>>
    /\ final_toc = <<>>

\* What cover_path can be: "none" for no path, no file (line 157) or a
\* file that cannot be read (line 153), all of which leave
\* cover_page_item None; "ok" for a file that can be read.
CoverPaths == {"none", "ok"}

\* create_epub. Lines 104-177 load the cover and the images, each of which
\* can be read or not; lines 180-185: a TXT file that cannot be read ends
\* the call with no book written.
create_epub ==
    /\ pc = "create_epub"
    /\ \E can_read \in SUBSET IllustrationItems(illustration_data,
                                  UNION {Range(EpubImages(v)) :
                                            v \in EpubVolumeNames}) :
          LET items == IllustrationItems(illustration_data, can_read)
              st == AssembleBook(items, illustration_data, txt_content)
          IN  /\ illustration_items' = items
              /\ \E cover_path \in CoverPaths :
                    /\ cover_page_item' = (cover_path = "ok")
                    /\ IF txt_file.exists
                       THEN /\ spine_items' =
                                   SpineStart(cover_path = "ok") \o st.spine
                            /\ final_toc' = st.toc
                            /\ pc' = "epub_written"
                       ELSE /\ pc' = "epub_failed"
                            /\ UNCHANGED <<spine_items, final_toc>>
    /\ UNCHANGED <<book, hash_file, dirs, files, txt_file, illustrations_ok,
                   illustration_data, volume_images_map, download_tasks,
                   task_state, txt_success, requests_made, epub_input,
                   readable, txt_content>>

NextEpub == create_epub

SpecEpub == InitEpub /\ [][NextEpub]_vars

(***************************************************************************)
(* Properties                                                              *)
(***************************************************************************)
\* The entries <<volume, filename, digest>> of a parsed ledger.
Listed(ledger) ==
    UNION {{<<ledger[i][1], ledger[i][2][j][1], ledger[i][2][j][2]>> :
               j \in DOMAIN ledger[i][2]} : i \in DOMAIN ledger}

\* The file of a ledger entry is on disk with the recorded digest.
EntryGood(e) ==
    /\ PathJoin(e[1], e[2]) \in DOMAIN files
    /\ Sha256(files[PathJoin(e[1], e[2])]) = e[3]

\* The paths a resource map gives for a volume, and all its paths.
PathsOf(map, volume) ==
    UNION {Range(map[i][2]) : i \in {k \in DOMAIN map : map[k][1] = volume}}

AllPathsOf(map) == UNION {Range(map[i][2]) : i \in DOMAIN map}

\* Two resource maps name the same volumes and, per volume, the same files.
SameResources(m1, m2) ==
    /\ Keys(m1) = Keys(m2)
    /\ \A v \in Keys(m1) : PathsOf(m1, v) = PathsOf(m2, v)

\* C1: check_hashes is all-or-nothing. Right after it has returned for a
\* parsed ledger: if any listed file of any volume is missing or differs
\* from its recorded digest the result is (False, None); a False result
\* never carries a resource set; a True result means every listed file
\* matches and the resource set holds every listed file.
C1_AllOrNothing ==
    (pc = "search" /\ hash_file.kind = "json") =>
        LET entries == Listed(hash_file.json)
        IN  /\ (\E e \in entries : ~EntryGood(e)) =>
                   (~illustrations_ok /\ illustration_data = None)
            /\ ~illustrations_ok => illustration_data = None
            /\ illustrations_ok =>
                   /\ ~illustration_data.none
                   /\ \A e \in entries :
                         /\ EntryGood(e)
                         /\ PathJoin(e[1], e[2]) \in
                                PathsOf(illustration_data.map, e[1])

\* C1 witness: the first volume of the ledger validates in full, a file of
\* the second does not, and the whole result is (False, None).
C1_Witness ==
    /\ pc = "search"
    /\ hash_file.kind = "json"
    /\ Len(hash_file.json) = 2
    /\ \A e \in Listed(hash_file.json) :
          e[1] = hash_file.json[1][1] => EntryGood(e)
    /\ \E e \in Listed(hash_file.json) :
          e[1] = hash_file.json[2][1] /\ ~EntryGood(e)
    /\ ~illustrations_ok
    /\ illustration_data = None

\* C2: ledger round trip. save_hashes of a resource map followed by
\* check_hashes on the untouched files returns True and a resource set
\* with the volumes of the map and, per volume, exactly its files.
C2_RoundTrip ==
    pc = "ledger_checked" =>
        /\ illustrations_ok
        /\ ~illustration_data.none
        /\ SameResources(illustration_data.map, volume_images_map)

\* C2 witness: a map of two volumes, one with two files, saved and
\* validated.
C2_Witness ==
    /\ pc = "ledger_checked"
    /\ Len(volume_images_map) = 2
    /\ \E v \in Keys(volume_images_map) :
          Cardinality(PathsOf(volume_images_map, v)) = 2
    /\ illustrations_ok

\* C3: loading the ledger fails soft. With the ledger missing or not
\* parsable, validation reports (False, None) to find_and_download_novel
\* and raises nothing, so the loop of main goes through every book.
C3_LedgerLoadFailsSoft ==
    /\ (pc \in {"search", "main_except"} /\ hash_file \in {Absent, Malformed})
          => (pc = "search" /\ ~illustrations_ok /\ illustration_data = None)
    /\ pc = "quit" => book = NumBooks

\* C4: save_hashes does not raise on a path that cannot be read: the entry
\* is left out and the ledger is written with the entries of the files
\* that can.
C4_SaveOmitsUnreadable ==
    pc \in {"ledger_saved", "ledger_raised"} =>
        /\ pc = "ledger_saved"
        /\ hash_file.kind = "json"
        /\ {PathJoin(e[1], e[2]) : e \in Listed(hash_file.json)} =
              AllPathsOf(volume_images_map) \cap DOMAIN files

\* The resource map check_hashes resolves from a parsed ledger.
LedgerMap(ledger) ==
    [i \in DOMAIN ledger |->
        <<ledger[i][1],
          [j \in DOMAIN ledger[i][2] |->
              PathJoin(ledger[i][1], ledger[i][2][j][1])]>>]

\* Positions of the main thread after the illustration stage of a run.
AfterSave == {"txt", "node1", "node2", "txt_done"}

AfterFetch == AfterSave \cup {"return"}

\* C5: in a run whose ledger validated, no download task is ever created,
\* create_epub receives the resource set resolved from the ledger, and no
\* step of the run changes the ledger file or an image file.
C5_CachedReuse ==
    /\ [](illustrations_ok =>
            /\ download_tasks = <<>>
            /\ task_state = <<>>
            /\ epub_input.called =>
                  epub_input.illustration_data = Some(LedgerMap(hash_file.json)))
    /\ [][(illustrations_ok /\ pc # "return") =>
            (hash_file' = hash_file /\ files' = files /\ dirs' = dirs)]_vars

\* C5 witness: create_epub was called with the cached set of a ledger that
\* lists two volumes.
C5_Witness ==
    /\ illustrations_ok
    /\ epub_input.called
    /\ Len(epub_input.illustration_data.map) = 2
    /\ pc = "return"

\* C6: in a run whose ledger is absent or invalid and whose fresh fetch
\* gave a resource map, after the fetch stage the ledger file is the one
\* written from that map: its volumes and files, and nothing else.
C6_LedgerRewritten ==
    (pc \in AfterFetch /\ ~illustrations_ok /\ Truthy(illustration_data)) =>
        /\ hash_file.kind = "json"
        /\ SameResources(LedgerMap(hash_file.json), illustration_data.map)

\* C7: when the executor is left every task has run, and the result of
\* download_illustrations holds the resources of the successful tasks
\* only, so that the failed ones can be told from them.
C7_ResultTellsFailures ==
    (pc = "save_hashes" /\ download_tasks # <<>>) =>
        /\ \A i \in DOMAIN task_state : task_state[i] \in {"written", "failed"}
        /\ ~illustration_data.none
        /\ AllPathsOf(illustration_data.map) =
              {download_tasks[i] : i \in {k \in DOMAIN task_state :
                                              task_state[k] = "written"}}

\* C8: a run with a usable TXT file in which some, but not all, image
\* downloads failed ends with create_epub called.
C8_FailedFetchStillAssembles ==
    ( /\ pc = "return"
      /\ txt_file.exists /\ txt_file.size > MinTxtSize
      /\ \E i \in DOMAIN task_state : task_state[i] = "failed"
      /\ \E i \in DOMAIN task_state : task_state[i] = "written" )
        => epub_input.called

\* C9: ordering. From the moment save_hashes is reached no download task
\* is queued or running; the ledger written in a run records the digests
\* of the files as they are for the rest of the run; and a cached resource
\* set is handed to create_epub only with every entry of the ledger
\* validated.
C9_Ordering ==
    /\ pc \in {"save_hashes"} \cup AfterFetch =>
          \A i \in DOMAIN task_state : task_state[i] \in {"written", "failed"}
    /\ (pc \in AfterSave /\ ~illustrations_ok /\ Truthy(illustration_data)) =>
          /\ hash_file.kind = "json"
          /\ \A e \in Listed(hash_file.json) : EntryGood(e)
    /\ (epub_input.called /\ illustrations_ok) =>
          /\ hash_file.kind = "json"
          /\ \A e \in Listed(hash_file.json) : EntryGood(e)

\* C9 witness: three tasks were run, one of them failed over a file left
\* from an earlier run, and the ledger was written after all of them.
C9_Witness ==
    /\ pc = "txt"
    /\ ~illustrations_ok
    /\ Len(task_state) = 3
    /\ \E i \in DOMAIN task_state : task_state[i] = "failed"
    /\ \E i \in DOMAIN task_state : task_state[i] = "written"
    /\ hash_file.kind = "json"
    /\ Len(hash_file.json) = 2

\* A TXT response that download_txt takes: not an error, body over 100 bytes.
GoodResponse(request) == request[2].ok /\ request[2].size > 100

\* C10: node 1 is asked first and node 2 only after node 1 failed; the
\* file is written from a response only if that response is good; and the
\* retrieval succeeds iff a good local file was there or a request was
\* answered with a good response.
TxtNodesState ==
    /\ Len(requests_made) <= 2
    /\ \A i \in DOMAIN requests_made :
          /\ requests_made[i][1] = i
          /\ i = 2 => ~GoodResponse(requests_made[1])
    /\ pc = "txt_done" =>
          /\ txt_success <=>
                \/ requests_made = <<>> /\ txt_file.exists /\ txt_file.size > 100
                \/ \E i \in DOMAIN requests_made : GoodResponse(requests_made[i])
          /\ ~txt_success => Len(requests_made) = 2
          /\ requests_made # <<>> =>
                \/ /\ txt_success
                   /\ GoodResponse(requests_made[Len(requests_made)])
                   /\ txt_file = TxtFile(requests_made[Len(requests_made)][2].size)
                \/ /\ ~txt_success
                   /\ ~(txt_file.exists /\ txt_file.size > 100)

C10_TxtNodes ==
    /\ []TxtNodesState
    /\ [][txt_file' # txt_file =>
            \/ pc = "return"
            \/ pc' = "check_hashes"
            \/ /\ requests_made' # <<>>
               /\ GoodResponse(requests_made'[Len(requests_made')])
               /\ txt_file' = TxtFile(requests_made'[Len(requests_made')][2].size)]_vars

\* C10 witness: node 1 answered with a body of exactly 100 bytes, node 2
\* with a good one, and the retrieval succeeded.
C10_Witness ==
    /\ pc = "txt_done"
    /\ Len(requests_made) = 2
    /\ requests_made[1][2].ok
    /\ requests_made[1][2].size = 100
    /\ txt_success

\* Both nodes were asked for the TXT of the book in hand and neither gave it.
TxtLost == pc = "return" /\ Len(requests_made) = 2 /\ ~txt_success

\* C11: a book whose TXT cannot be obtained gets no document, and that is
\* all: find_and_download_novel returns to the loop of main, which goes on
\* to the next title of the list. The loop is cut short only by an
\* exception of check_hashes (C3), never by a lost TXT.
C11_TxtFailureIsLocal ==
    /\ [](TxtLost => ~epub_input.called)
    /\ [][TxtLost => (pc' = "main_loop" /\ book' = book)]_vars
    /\ [][pc = "main_loop" =>
            IF book < NumBooks
            THEN pc' = "check_hashes" /\ book' = book + 1
            ELSE pc' = "quit"]_vars
    /\ []((pc \in {"main_except", "quit"} /\ book < NumBooks) =>
            (hash_file = Malformed /\ requests_made = <<>>))

\* C11 witness: the first book of the list lost its TXT and no document
\* was assembled for it.
C11_Witness ==
    /\ TxtLost
    /\ book = 1
    /\ book < NumBooks
    /\ ~epub_input.called

(***************************************************************************)
(* The book create_epub assembles (SpecEpub)                               *)
(***************************************************************************)
Written == pc = "epub_written"

KnownTitles ==
    IF Truthy(illustration_data) THEN Keys(illustration_data.map) ELSE {}

\* Volume i of the TXT file, at being the lines of the volume headings in
\* source order: the line of its heading, the heading, its core name, the
\* lines up to the next heading, these lines as the chapter split sees
\* them (trimmed, and the lines with the illustration mark emptied), and
\* the number of chapter headings among them.
VolumeAt(at, i) ==
    LET body == SubSeq(txt_content, at[i] + 1,
                       IF i < Len(at) THEN at[i + 1] - 1
                       ELSE Len(txt_content))
        clean == RemoveIllustrationLines(Strip(body))
    IN  [line |-> at[i],
         heading |-> txt_content[at[i]].text,
         core |-> get_core_volume_name(txt_content[at[i]].text),
         body |-> body,
         clean |-> clean,
         chapters |-> Cardinality({k \in DOMAIN clean :
                                      IsChapterHeading(clean[k])})]

RECURSIVE VolumesFrom(_, _)
VolumesFrom(at, i) ==
    IF i > Len(at) THEN <<>>
    ELSE <<VolumeAt(at, i)>> \o VolumesFrom(at, i + 1)

\* The volumes of the TXT file in source order.
Volumes ==
    VolumesFrom(Ascending({k \in DOMAIN txt_content :
                              IsVolumeHeading(txt_content[k], KnownTitles)}),
                1)

\* The places of the spine that hold pages of volume i.
PlacesOf(i) == {k \in DOMAIN spine_items : spine_items[k].volume = i}

ChapterPlacesOf(i) ==
    {k \in PlacesOf(i) : spine_items[k].kind \in {"full", "chap"}}

IllustPlacesOf(i) == {k \in PlacesOf(i) : spine_items[k].kind = "illust"}

\* The order of two pages of the volumes: by volume, and within a volume
\* the illustration page, then the chapters by number.
Rank(page) == IF page.kind = "illust" THEN 0
              ELSE IF page.kind = "full" THEN 1 ELSE page.chapter

Precedes(a, b) ==
    \/ a.volume < b.volume
    \/ a.volume = b.volume /\ Rank(a) < Rank(b)

\* The text before the first volume heading has a line that is not blank.
HasPrologue(vol) ==
    \E k \in DOMAIN txt_content :
        /\ ~IsBlank(txt_content[k])
        /\ \A i \in DOMAIN vol : k < vol[i].line

\* C12: the spine is the cover page if the cover was loaded, the
\* navigation page, the synopsis, the prologue if the text before the first
\* volume heading is not blank, and then the pages of the volumes: volume
\* by volume in source order, the illustration page of a volume before its
\* chapters, its chapters in the order of their headings.
C12_SpineOrder ==
    Written =>
        LET vol == Volumes
            c == IF cover_page_item THEN 1 ELSE 0
            pro == HasPrologue(vol)
            front == c + 2 + (IF pro THEN 1 ELSE 0)
        IN  /\ Len(spine_items) >= front
            /\ c = 1 => spine_items[1].kind = "cover"
            /\ spine_items[c + 1].kind = "nav"
            /\ spine_items[c + 2].kind = "synopsis"
            /\ pro => spine_items[front].kind = "prologue"
            /\ \A k \in (front + 1)..Len(spine_items) :
                  /\ spine_items[k].kind \in {"illust", "full", "chap"}
                  /\ spine_items[k].volume \in DOMAIN vol
                  /\ k < Len(spine_items) =>
                        Precedes(spine_items[k], spine_items[k + 1])
            /\ \A i \in DOMAIN vol :
                  vol[i].chapters > 0 =>
                      {spine_items[k].chapter : k \in ChapterPlacesOf(i)}
                          = 1..vol[i].chapters

\* C12 witness: a book with a cover and two volumes, the first with an
\* illustration page and a chapter.
C12_Witness ==
    /\ Written
    /\ cover_page_item
    /\ Len(Volumes) = 2
    /\ IllustPlacesOf(1) # {}
    /\ ChapterPlacesOf(1) # {}
    /\ PlacesOf(2) # {}

\* The texts of the lines of a text that are not blank.
SolidTexts(text) ==
    LET solid == SelectSeq(text, LAMBDA line : ~IsBlank(line))
    IN  [k \in DOMAIN solid |-> <<solid[k].text>>]

\* C13 as stated: every volume whose body has no chapter heading is one
\* chapter in the book, titled with the volume heading, whose content is
\* not empty and is the trimmed volume body.
C13_FallbackEveryBody ==
    Written =>
        LET vol == Volumes
        IN  \A i \in DOMAIN vol :
                vol[i].chapters = 0 =>
                    /\ Cardinality(ChapterPlacesOf(i)) = 1
                    /\ \A k \in ChapterPlacesOf(i) :
                          /\ spine_items[k].title = vol[i].heading
                          /\ spine_items[k].body # <<>>
                          /\ spine_items[k].body =
                                 SolidTexts(Strip(vol[i].body))

\* C13, amended: a volume without a chapter heading whose body has a line
\* left that is neither blank nor an illustration-mark line is one chapter
\* in the book, titled with the volume heading, whose content is those
\* lines in order less the ones equal to the heading; a volume without
\* such a line is no chapter at all.
C13_FallbackSolidBody ==
    Written =>
        LET vol == Volumes
        IN  \A i \in DOMAIN vol :
                vol[i].chapters = 0 =>
                    IF \E k \in DOMAIN vol[i].body :
                           /\ ~IsBlank(vol[i].body[k])
                           /\ ~HasIllustrationMark(vol[i].body[k])
                    THEN /\ Cardinality(ChapterPlacesOf(i)) = 1
                         /\ \A k \in ChapterPlacesOf(i) :
                               /\ spine_items[k].kind = "full"
                               /\ spine_items[k].title = vol[i].heading
                               /\ spine_items[k].body =
                                      SelectSeq(SolidTexts(vol[i].clean),
                                          LAMBDA par : par # <<vol[i].heading>>)
                    ELSE ChapterPlacesOf(i) = {}

\* C13 witness: a volume of two paragraphs and no chapter heading is one
\* chapter of two paragraphs.
C13_Witness ==
    /\ Written
    /\ \E i \in DOMAIN Volumes :
          /\ Volumes[i].chapters = 0
          /\ \E k \in ChapterPlacesOf(i) : Len(spine_items[k].body) = 2

\* The core names of the illustration volumes.
CoreNames == {get_core_volume_name(title) : title \in KnownTitles}

\* Volume i is the first volume of its core name.
FirstOfCore(vol, i) == \A j \in 1..(i - 1) : vol[j].core # vol[i].core

\* The images of a core name: those of the last illustration volume of
\* that name.
ImagesOfCore(core) ==
    LET m == illustration_data.map
        last == CHOOSE i \in DOMAIN m :
                    /\ get_core_volume_name(m[i][1]) = core
                    /\ \A j \in DOMAIN m :
                          get_core_volume_name(m[j][1]) = core => j <= i
    IN  m[last][2]

\* The illustration page of volume i, where there is one, comes after
\* every page of the volumes before it and before the chapters of volume i.
IllustPlaced(i) ==
    \A k \in IllustPlacesOf(i) :
        /\ \A m \in DOMAIN spine_items :
              spine_items[m].volume \in 1..(i - 1) => m < k
        /\ \A m \in ChapterPlacesOf(i) : k < m

\* No two illustration pages for one core name.
OnePagePerCore(vol) ==
    \A i, j \in DOMAIN vol :
        (IllustPlacesOf(i) # {} /\ IllustPlacesOf(j) # {}
            /\ vol[i].core = vol[j].core) => i = j

\* C14 as stated: the first volume heading of each core name that is in
\* the illustration-volume set has an illustration page, placed after the
\* pages of the earlier volumes and before its chapters, and no core name
\* has two illustration pages.
C14_IllustrationPageEveryVolume ==
    Written =>
        LET vol == Volumes
        IN  /\ \A i \in DOMAIN vol :
                  /\ (vol[i].core \in CoreNames /\ FirstOfCore(vol, i))
                         => Cardinality(IllustPlacesOf(i)) = 1
                  /\ IllustPlaced(i)
            /\ OnePagePerCore(vol)

\* C14, amended: the first volume heading of each core name that is in the
\* illustration-volume set has an illustration page exactly when one of
\* the images of that core name could be loaded; the page shows the loaded
\* images, it is placed after the pages of the earlier volumes and before
\* the chapters of its volume, no other heading has an illustration page,
\* and no core name has two.
C14_IllustrationPageIfLoaded ==
    Written =>
        LET vol == Volumes
        IN  /\ \A i \in DOMAIN vol :
                  /\ IF /\ vol[i].core \in CoreNames
                        /\ FirstOfCore(vol, i)
                        /\ Range(ImagesOfCore(vol[i].core))
                               \cap illustration_items # {}
                     THEN /\ Cardinality(IllustPlacesOf(i)) = 1
                          /\ \A k \in IllustPlacesOf(i) :
                                spine_items[k].body =
                                    SelectSeq(ImagesOfCore(vol[i].core),
                                        LAMBDA img_path :
                                            img_path \in illustration_items)
                     ELSE IllustPlacesOf(i) = {}
                  /\ IllustPlaced(i)
            /\ OnePagePerCore(vol)

\* C14 witness: two volume headings of one core name, the first with the
\* illustration page and a chapter, the second with a chapter only.
C14_Witness ==
    /\ Written
    /\ \E i, j \in DOMAIN Volumes :
          /\ i < j
          /\ Volumes[i].core = Volumes[j].core
          /\ IllustPlacesOf(i) # {}
          /\ ChapterPlacesOf(i) # {}
          /\ IllustPlacesOf(j) = {}

(***************************************************************************)
(* The ledger of generate_hashes.py (SpecGenerate)                         *)
(***************************************************************************)
\* The files of a volume directory that are images by their names and can
\* be read.
ReadableImages(volume) ==
    {path \in DOMAIN files \cap readable :
        path[1] = volume /\ path[2] \in {"a.jpg", "B.PNG"}}

\* C15: check_hashes accepts the ledger generate_hashes.py wrote for a
\* directory nobody touched since: it does not raise, it returns True, and
\* its resource set has the volume directories of the book and, for each,
\* exactly the files the generator recorded, which are the image files of
\* the directory that could be read, each once.
C15_GeneratedLedgerAccepted ==
    /\ pc # "ledger_raised"
    /\ pc = "ledger_checked" =>
          /\ illustrations_ok
          /\ ~illustration_data.none
          /\ Keys(illustration_data.map) = dirs
          /\ \A i \in DOMAIN illustration_data.map :
                LET volume == illustration_data.map[i][1]
                    paths == illustration_data.map[i][2]
                IN  /\ Range(paths) = ReadableImages(volume)
                    /\ Range(paths) =
                           {PathJoin(e[1], e[2]) :
                               e \in {e \in Listed(hash_file.json) :
                                         e[1] = volume}}
                    /\ Len(paths) = Cardinality(Range(paths))

\* C15 witness: a ledger was generated and accepted for a directory with
\* an image that could not be read, an image with an upper-case
\* extension, a file that is no image and a volume without images.
C15_Witness ==
    /\ pc = "ledger_checked"
    /\ illustrations_ok
    /\ \E path \in DOMAIN files : IsImageFile(path[2]) /\ path \notin readable
    /\ \E path \in DOMAIN files : ~IsImageFile(path[2])
    /\ \E volume \in dirs : PathJoin(volume, "B.PNG") \in ReadableImages(volume)
    /\ \E volume \in dirs : ReadableImages(volume) = {}

====
